---- MODULE Spec2Model ----
(***************************************************************************)
(* Buffered, interrupt-driven UART of embassy-imxrt (src/uart/buffered.rs).*)
(*                                                                         *)
(* Two execution contexts are modelled: the interrupt handler              *)
(* (BufferedInterruptHandler::on_interrupt), which preempts the tasks and  *)
(* runs to completion with respect to them, and the task side (one RX      *)
(* consumer, one TX producer).  The hardware (FIFOs, STAT flags, interrupt *)
(* controller) runs concurrently with both.                                *)
(*                                                                         *)
(* Words of bits (STAT, rx_error, INTENSET, FIFOINTENSET) are sets of bit  *)
(* names: OR is union, AND is intersection, 0 is the empty set.            *)
(***************************************************************************)
EXTENDS Integers, Sequences, FiniteSets, TLC

\* ------------------------------------------------------------------ bounds
\* Largest destination / source slice a task passes to read / write.
MaxSlice == 2
\* Characters the receiver produces in one run of the receive model.
MaxRxBytes == 7
\* Bytes the producer offers in one run of the transmit model.
MaxTxBytes == 7
\* Characters received and bytes offered in one run of the whole-driver model.
SysBytes == 1
\* Constructions (handle lifetimes) in one run of the whole-driver model.
MaxLives == 2
\* The count of faults returned to the consumer saturates here.
MaxCalls == 3
MaxRing == 4

\* BUFLEN of the buffered-uart example: the storage of the scenarios.
BUFLEN == 32

VARIABLES
    cfg,        \* the run's configuration: storage lengths, FIFO depths, traffic
    rx_buf,     \* State.rx_buf : RingBuffer
    tx_buf,     \* State.tx_buf : RingBuffer
    rx_waker,   \* State.rx_waker holds a waker
    tx_waker,   \* State.tx_waker holds a waker
    rx_error,   \* State.rx_error : AtomicU32
    intenset,   \* USART INTENSET: enabled status interrupts
    fifointen,  \* FIFOINTENSET: enabled FIFO interrupts
    irqEnabled, \* NVIC: the line is enabled
    irqPending, \* NVIC: the line was pended by software
    stat,       \* USART STAT: sticky fault flags and the break state
    rxFifo,     \* hardware receive FIFO (head first)
    txFifo,     \* hardware transmit FIFO occupancy
    txLvlFlag,  \* the transmit FIFO went through its level (became empty)
    isr,        \* the interrupt handler's position and locals
    rxh,        \* receive handle: "none" | "live" | "dropping" | "dropped"
    txh,        \* transmit handle, same values
    rxt,        \* the RX task: position and locals of the call in progress
    txt,        \* the TX task
    rxWoken,    \* the RX task was woken and waits to be polled
    txWoken,    \* the TX task was woken and waits to be polled
    hist        \* history of the run (what the hardware and the tasks saw)

vars == <<cfg, rx_buf, tx_buf, rx_waker, tx_waker, rx_error, intenset, fifointen,
          irqEnabled, irqPending, stat, rxFifo, txFifo, txLvlFlag, isr,
          rxh, txh, rxt, txt, rxWoken, txWoken, hist>>

stateVars == <<rx_buf, tx_buf, rx_waker, tx_waker, rx_error>>
regVars == <<intenset, fifointen>>
nvicVars == <<irqEnabled, irqPending>>
hwVars == <<stat, rxFifo, txFifo, txLvlFlag>>
taskVars == <<rxt, txt, rxWoken, txWoken>>
handleVars == <<rxh, txh>>

Min(a, b) == IF a < b THEN a ELSE b

\* --------------------------------------------------------------- bit names
RXE_NOISE == "rxnoise"
RXE_PARITYERR == "parityerr"
RXE_FRAMERR == "framerr"
RXE_BREAK == "rxbrk"
RxeMask == {RXE_BREAK, RXE_FRAMERR, RXE_NOISE, RXE_PARITYERR}
\* The status interrupts init_buffers enables and the handler disables.
ErrEnables == {"framerr", "parityerr", "rxnoise", "aberr"}
AckEnables == {"txidle", "framerr", "parityerr", "rxnoise", "aberr"}

\* ------------------------------------------------------------- ring buffer
\* start and end wrap at 2*len; the storage is mem[1..len] (offset p is mem[p+1]).
RbNew == [len |-> 0, start |-> 0, end |-> 0, mem |-> <<>>]
RbInit(n) == [len |-> n, start |-> 0, end |-> 0, mem |-> [i \in 1..n |-> 0]]
\* A deinit that leaves a one-byte ring attached.
RbDeinitKeepsStorage == [len |-> 1, start |-> 0, end |-> 0, mem |-> <<0>>]
RbDeinit == RbNew
RbIsAvailable(rb) == rb.len # 0
RbWrap(rb, n) == IF n >= rb.len * 2 THEN n - rb.len * 2 ELSE n
RbIsEmpty(rb) == rb.start = rb.end
RbIsFull(rb) == RbWrap(rb, rb.start + rb.len) = rb.end
RbFold(rb, c) == IF c >= rb.len THEN c - rb.len ELSE c
\* Occupancy (a derived quantity, used by the properties only).
RbUsed(rb) ==
    IF rb.end >= rb.start THEN rb.end - rb.start ELSE rb.end + 2 * rb.len - rb.start

\* Writer::push_buf: the contiguous free slice at the write cursor.
RbPushBuf(rb) ==
    LET s == RbFold(rb, rb.start)
        e == RbFold(rb, rb.end)
    IN  IF s = e /\ rb.start # rb.end THEN [pos |-> 0, n |-> 0]
        ELSE [pos |-> e, n |-> IF s > e THEN s - e ELSE rb.len - e]
RbPushDone(rb, n) == [rb EXCEPT !.end = RbWrap(rb, rb.end + n)]

\* Reader::pop_buf: the contiguous occupied slice at the read cursor.
RbPopBuf(rb) ==
    LET s == RbFold(rb, rb.start)
        e == RbFold(rb, rb.end)
    IN  IF rb.start = rb.end THEN [pos |-> 0, n |-> 0]
        ELSE [pos |-> s, n |-> IF e > s THEN e - s ELSE rb.len - s]
\* A pop_done that moves the read cursor by one when told to move it by none.
RbPopDoneAtLeastOne(rb, n) ==
    [rb EXCEPT !.start = RbWrap(rb, rb.start + (IF n = 0 THEN 1 ELSE n))]
RbPopDone(rb, n) == [rb EXCEPT !.start = RbWrap(rb, rb.start + n)]

\* Storing bytes bs at offset p of the storage; reading k bytes from offset p.
RbStore(rb, p, bs) ==
    [rb EXCEPT !.mem = [i \in 1..rb.len |->
        IF i > p /\ i <= p + Len(bs) THEN bs[i - p] ELSE rb.mem[i]]]
RbLoad(rb, p, k) == [i \in 1..k |-> rb.mem[p + i]]

\* --------------------------------------------------------- wakers, errors
\* AtomicWaker::wake takes the registered waker, if any, and wakes its task.
WakeWoken(waker, woken) == waker \/ woken

\* A selection that tests framing before noise and parity.
GetRxErrorKindFramingFirst(errs) ==
    IF RXE_FRAMERR \in errs THEN "Framing"
    ELSE IF RXE_NOISE \in errs THEN "Noise"
    ELSE IF RXE_PARITYERR \in errs THEN "Parity"
    ELSE IF RXE_BREAK \in errs THEN "Break"
    ELSE "None"

\* BufferedUartRx::get_rx_error, the selection after the load-and-clear.
GetRxErrorKind(errs) ==
    IF RXE_NOISE \in errs THEN "Noise"
    ELSE IF RXE_PARITYERR \in errs THEN "Parity"
    ELSE IF RXE_FRAMERR \in errs THEN "Framing"
    ELSE IF RXE_BREAK \in errs THEN "Break"
    ELSE "None"

\* ---------------------------------------------------------------- hardware
\* STAT as the handler reads it: the fault flags plus TXIDLE.
StatBits == stat \cup (IF txFifo = 0 THEN {"txidle"} ELSE {})
\* INTSTAT: the status flags whose interrupt is enabled.
IntStat == StatBits \cap intenset
\* FIFOINTSTAT: the FIFO conditions whose interrupt is enabled.
FifoIntStat ==
    fifointen \cap ((IF rxFifo # <<>> THEN {"rxlvl"} ELSE {})
                    \cup (IF txLvlFlag THEN {"txlvl"} ELSE {}))
\* The peripheral requests its interrupt.
IrqAsserted == IntStat # {} \/ FifoIntStat # {}

IsrIdle == [pc |-> "idle", pos |-> 0, n |-> 0, i |-> 0, free |-> 0]
RxIdle ==
    [pc |-> "idle", op |-> "none", len |-> 0, pos |-> 0, n |-> 0, err |-> "None",
     val |-> {}]
TxIdle == [pc |-> "idle", op |-> "none", len |-> 0, pos |-> 0, n |-> 0]

HistInit ==
    [ rxProduced |-> 0,        \* bytes the receiver put into the RX FIFO
      rxRemoved |-> <<>>,      \* bytes the handler read from the RX FIFO
      rxDelivered |-> <<>>,    \* bytes returned to the consumer
      rxLatchMark |-> 0,       \* Len(rxRemoved) at the first latch since the last take
      rxErrAt |-> 0,           \* Len(rxDelivered) when the last fault was returned
      rxErrMark |-> 0,         \* rxLatchMark of the last fault returned
      rxErrs |-> 0,            \* faults returned to the consumer
      rxFaults |-> 0,          \* faulted characters received
      txOffered |-> 0,         \* bytes accepted from the producer so far
      txAccepted |-> <<>>,     \* the accepted bytes, in order
      txWire |-> <<>>,         \* bytes the handler wrote to the TX FIFO
      txLast |-> 0,            \* bytes the last accepted write queued
      txPasses |-> 0,          \* handler passes since then that found the TX FIFO empty
      pendLife |-> 0,          \* the lifetime whose write pended the line, 0 when not pending
      unpended |-> FALSE,      \* init_buffers cleared a pending line, no handler pass since
      rejected |-> "none",     \* the constructor Uart::init turned down last, if any
      lastErr |-> "None",      \* the fault the last failing consumer call returned
      latchedSince |-> FALSE,  \* the handler latched a fault since the last get_rx_error
      errFresh |-> TRUE,       \* every fault returned so far followed a latch
      txRegBusy |-> FALSE,     \* the suspended producer registered over a non-empty TX ring
      flushUsed |-> 0,         \* bytes in the TX ring when the last flush returned
      kind |-> "none",         \* the constructor of this lifetime
      firstDrop |-> "none",    \* the handle dropped first in this lifetime
      disables |-> 0,          \* interrupt.disable() calls in this lifetime
      abandoned |-> FALSE,     \* a suspended call had its future dropped
      lives |-> 0 ]            \* constructions so far

\* Power-on: State::new(), nothing constructed, the line disabled.
InitState(c) ==
    /\ cfg = c
    /\ rx_buf = RbNew /\ tx_buf = RbNew
    /\ rx_waker = FALSE /\ tx_waker = FALSE
    /\ rx_error = {}
    /\ intenset = {} /\ fifointen = {}
    /\ irqEnabled = FALSE /\ irqPending = FALSE
    /\ stat = {} /\ rxFifo = <<>> /\ txFifo = 0 /\ txLvlFlag = FALSE
    /\ isr = IsrIdle
    /\ rxh = "none" /\ txh = "none"
    /\ rxt = RxIdle /\ txt = TxIdle
    /\ rxWoken = FALSE /\ txWoken = FALSE
    /\ hist = HistInit

\* A character arrives at the configured receiver: it enters the RX FIFO and its
\* faults are flagged in STAT.
HwRxByte(f) ==
    /\ hist.lives > 0
    /\ hist.rxProduced < cfg.rxBytes
    /\ Len(rxFifo) < cfg.rxDepth
    /\ f \in cfg.faults
    /\ (cfg.faultAt # 0 => (f # {} <=> hist.rxProduced + 1 = cfg.faultAt))
    /\ rxFifo' = Append(rxFifo, hist.rxProduced + 1)
    /\ stat' = stat \cup f
    /\ hist' = [hist EXCEPT !.rxProduced = @ + 1,
                            !.rxFaults = IF f # {} THEN @ + 1 ELSE @]
    /\ UNCHANGED <<cfg, stateVars, regVars, nvicVars, txFifo, txLvlFlag, isr,
                   handleVars, taskVars>>

\* The transmitter shifts one character out of the TX FIFO.
HwTxShift ==
    /\ txFifo > 0
    /\ cfg.shiftInPass \/ isr.pc = "idle"
    /\ txFifo' = txFifo - 1
    /\ txLvlFlag' = (txFifo = 1)
    /\ UNCHANGED <<cfg, stateVars, regVars, nvicVars, stat, rxFifo, isr,
                   handleVars, taskVars, hist>>

\* An init_buffers that enables the line with its pending state as found.
InitUnpendKeeps(pending) == pending

\* init_buffers: interrupt.unpend(), the pending state of the line after it.
InitUnpend(pending) == FALSE

\* Every constructor starts a lifetime: the history of the transfers starts anew.
HistNew(kind) ==
    [HistInit EXCEPT !.rxProduced = hist.rxProduced, !.rxFaults = hist.rxFaults,
                     !.lives = hist.lives + 1, !.kind = kind,
                     !.pendLife = IF InitUnpend(irqPending) THEN hist.pendLife ELSE 0,
                     !.unpended = irqPending /\ ~InitUnpend(irqPending)]

\* ------------------------------------------------------------ construction
\* init_buffers, called by every constructor after Uart::init succeeded.
InitBuffers(txLen, rxLen) ==
    /\ tx_buf' = IF txLen > 0 THEN RbInit(txLen) ELSE tx_buf
    /\ rx_buf' = IF rxLen > 0 THEN RbInit(rxLen) ELSE rx_buf
    /\ intenset' = intenset \cup ErrEnables
    /\ fifointen' = fifointen \cup {"rxlvl", "txlvl"}
    /\ irqPending' = InitUnpend(irqPending)
    /\ irqEnabled' = TRUE

PeripheralFree == rxh \in {"none", "dropped"} /\ txh \in {"none", "dropped"}

\* A constructor that goes on to init_buffers whatever Uart::init returned.
CtorProceedsAlways(initOk) == TRUE

\* The `?` on Uart::init: the constructor goes on only when it returned Ok.
CtorProceeds(initOk) == initOk

\* BufferedUart::new / new_with_rtscts.
NewUart(txLen, rxLen) ==
    /\ PeripheralFree /\ isr.pc = "idle" /\ CtorProceeds(TRUE)
    /\ hist.lives < cfg.lives
    /\ txLen \in cfg.txLens /\ rxLen \in cfg.rxLens
    /\ InitBuffers(txLen, rxLen)
    /\ rxh' = "live" /\ txh' = "live"
    /\ hist' = HistNew("uart")
    /\ UNCHANGED <<cfg, rx_waker, tx_waker, rx_error, hwVars, isr, taskVars>>

\* BufferedUartRx::new / new_with_rts.
NewRx(rxLen) ==
    /\ PeripheralFree /\ isr.pc = "idle" /\ CtorProceeds(TRUE)
    /\ hist.lives < cfg.lives
    /\ rxLen \in cfg.rxLens
    /\ InitBuffers(0, rxLen)
    /\ rxh' = "live" /\ txh' = "none"
    /\ hist' = HistNew("rx")
    /\ UNCHANGED <<cfg, rx_waker, tx_waker, rx_error, hwVars, isr, taskVars>>

\* BufferedUartTx::new / new_with_cts.
NewTx(txLen) ==
    /\ PeripheralFree /\ isr.pc = "idle" /\ CtorProceeds(TRUE)
    /\ hist.lives < cfg.lives
    /\ txLen \in cfg.txLens
    /\ InitBuffers(txLen, 0)
    /\ txh' = "live" /\ rxh' = "none"
    /\ hist' = HistNew("tx")
    /\ UNCHANGED <<cfg, rx_waker, tx_waker, rx_error, hwVars, isr, taskVars>>

\* Any of the constructors when Uart::init returns Err: the error is returned
\* by `?` before init_buffers, and no handle is made.
NewRejected(kind) ==
    /\ PeripheralFree /\ isr.pc = "idle"
    /\ hist.lives < cfg.lives
    /\ kind \in {"uart", "rx", "tx"}
    /\ IF CtorProceeds(FALSE)
       THEN \E t \in (IF kind = "rx" THEN {0} ELSE cfg.txLens),
               r \in (IF kind = "tx" THEN {0} ELSE cfg.rxLens) : InitBuffers(t, r)
       ELSE UNCHANGED <<tx_buf, rx_buf, regVars, nvicVars>>
    /\ hist' = [hist EXCEPT !.rejected = kind]
    /\ UNCHANGED <<cfg, rx_waker, tx_waker, rx_error, hwVars, isr, handleVars, taskVars>>

\* ------------------------------------------------------- interrupt handler
\* A handler that ignores the offset of the slice pop_slice returned.
IsrTxBeginAtZero(txb) ==
    IF RbIsAvailable(txb)
    THEN [pc |-> "tx", pos |-> 0, n |-> RbPopBuf(txb).n, i |-> 0,
          free |-> cfg.txDepth - txFifo]
    ELSE IsrIdle

\* The TX half of the handler begins (or the handler returns).
IsrTxBegin(txb) ==
    IF RbIsAvailable(txb)
    THEN [pc |-> "tx", pos |-> RbPopBuf(txb).pos, n |-> RbPopBuf(txb).n, i |-> 0,
          free |-> cfg.txDepth - txFifo]
    ELSE IsrIdle

\* A handler that ignores the offset of the slice push_slice returned.
IsrRxBeginAtZero(rxb, txb) ==
    IF RbIsAvailable(rxb)
    THEN [pc |-> "rx", pos |-> 0, n |-> RbPushBuf(rxb).n, i |-> 0, free |-> 0]
    ELSE IsrTxBegin(txb)

\* A handler that enters its RX half whether or not the ring is attached.
IsrRxBeginAlways(rxb, txb) ==
    [pc |-> "rx", pos |-> RbPushBuf(rxb).pos, n |-> RbPushBuf(rxb).n, i |-> 0,
     free |-> 0]

\* The RX half of the handler begins, or is skipped.
IsrRxBegin(rxb, txb) ==
    IF RbIsAvailable(rxb)
    THEN [pc |-> "rx", pos |-> RbPushBuf(rxb).pos, n |-> RbPushBuf(rxb).n, i |-> 0,
          free |-> 0]
    ELSE IsrTxBegin(txb)

\* The status interrupts the handler disables on entry.
IsrAckStatus(intstat) == IF intstat \cap AckEnables # {} THEN AckEnables ELSE {}

\* The FIFO interrupts the handler disables on entry.
IsrAckFifo(fifointstat) ==
    (IF "txlvl" \in fifointstat \/ "txerr" \in fifointstat THEN {"txlvl", "txerr"} ELSE {})
    \cup (IF "rxlvl" \in fifointstat \/ "rxerr" \in fifointstat THEN {"rxlvl", "rxerr"} ELSE {})

\* A get_rx_error whose load and store run with interrupts enabled.
InCriticalSectionNever(pc) == FALSE

\* critical_section::with of get_rx_error: held between the load and the store.
InCriticalSection(pc) == pc = "take_store"

\* The handler is entered: it acknowledges, then takes the RX slice.
IsrEntry ==
    /\ isr.pc = "idle"
    /\ irqEnabled /\ (irqPending \/ IrqAsserted)
    /\ ~InCriticalSection(rxt.pc)
    /\ irqPending' = FALSE
    /\ intenset' = intenset \ IsrAckStatus(IntStat)
    /\ fifointen' = fifointen \ IsrAckFifo(FifoIntStat)
    /\ isr' = IsrRxBegin(rx_buf, tx_buf)
    /\ hist' = [hist EXCEPT !.pendLife = 0, !.unpended = FALSE]
    /\ UNCHANGED <<cfg, stateVars, irqEnabled, hwVars, handleVars, taskVars>>

\* A handler that takes no STAT bit for a fault.
IsrRxFaultNever(st) == FALSE
\* A handler that takes any STAT bit for a fault.
IsrRxFaultAnyBit(st) == st # {}

\* The pending character carries a fault: the handler's test on STAT.
IsrRxFault(st) == st \cap RxeMask # {}

\* An RX loop that goes on past the end of the slice push_slice returned.
IsrRxCanReadPastSlice == rxFifo # <<>> /\ ~IsrRxFault(StatBits)

\* One iteration of the RX loop that reads a character.
IsrRxCanRead == isr.i < isr.n /\ rxFifo # <<>> /\ ~IsrRxFault(StatBits)

IsrRxRead ==
    /\ isr.pc = "rx"
    /\ IsrRxCanRead
    /\ rx_buf' = RbStore(rx_buf, isr.pos + isr.i, <<Head(rxFifo)>>)
    /\ rxFifo' = Tail(rxFifo)
    /\ isr' = [isr EXCEPT !.i = @ + 1]
    /\ hist' = [hist EXCEPT !.rxRemoved = Append(@, Head(rxFifo))]
    /\ UNCHANGED <<cfg, tx_buf, rx_waker, tx_waker, rx_error, regVars, nvicVars,
                   stat, txFifo, txLvlFlag, handleVars, taskVars>>

\* A handler that wakes the RX waiter only for characters.
IsrRxWakesOnData(n_read, error) == n_read > 0

\* The handler wakes the RX waiter.
IsrRxWakes(n_read, error) == n_read > 0 \/ error

\* A handler that masks the RX level interrupt for a full ring only.
IsrRxMasksOnFull(full, error) == full

\* The handler masks the RX level interrupt at the end of the RX half.
IsrRxMasks(full, error) == full \/ error

\* The RX loop ends (slice exhausted, FIFO empty, or a fault): commit, wake, mask.
IsrRxEnd ==
    /\ isr.pc = "rx"
    /\ ~IsrRxCanRead
    /\ LET error == isr.i < isr.n /\ rxFifo # <<>> /\ IsrRxFault(StatBits)
           rxb == IF isr.i > 0 THEN RbPushDone(rx_buf, isr.i) ELSE rx_buf
       IN  /\ rx_error' = IF error THEN rx_error \cup StatBits ELSE rx_error
           /\ rx_buf' = rxb
           /\ rxWoken' = IF IsrRxWakes(isr.i, error) THEN WakeWoken(rx_waker, rxWoken) ELSE rxWoken
           /\ rx_waker' = IF IsrRxWakes(isr.i, error) THEN FALSE ELSE rx_waker
           /\ fifointen' = IF IsrRxMasks(RbIsFull(rxb), error) THEN fifointen \ {"rxlvl"} ELSE fifointen
           /\ hist' = [hist EXCEPT !.rxLatchMark =
                          IF error /\ rx_error \cap RxeMask = {} THEN Len(hist.rxRemoved) ELSE @,
                                   !.latchedSince = @ \/ error]
    /\ isr' = IsrTxBegin(tx_buf)
    /\ UNCHANGED <<cfg, tx_buf, tx_waker, intenset, nvicVars, hwVars, handleVars,
                   rxt, txt, txWoken>>

\* A TX loop that goes on past the end of the slice pop_slice returned.
IsrTxCanWritePastSlice == txFifo < cfg.txDepth

\* One iteration of the TX loop that writes a character to the TX FIFO.
IsrTxCanWrite == isr.i < isr.n /\ txFifo < cfg.txDepth

IsrTxWrite ==
    /\ isr.pc = "tx"
    /\ IsrTxCanWrite
    /\ txFifo' = txFifo + 1
    /\ txLvlFlag' = FALSE
    /\ isr' = [isr EXCEPT !.i = @ + 1]
    /\ hist' = [hist EXCEPT !.txWire = Append(@, tx_buf.mem[isr.pos + isr.i + 1])]
    /\ UNCHANGED <<cfg, stateVars, regVars, nvicVars, stat, rxFifo, handleVars, taskVars>>

\* The TX loop ends (slice exhausted or FIFO full): commit and wake.
IsrTxEnd ==
    /\ isr.pc = "tx"
    /\ ~IsrTxCanWrite
    /\ tx_buf' = IF isr.i > 0 THEN RbPopDone(tx_buf, isr.i) ELSE tx_buf
    /\ txWoken' = IF isr.i > 0 THEN WakeWoken(tx_waker, txWoken) ELSE txWoken
    /\ tx_waker' = IF isr.i > 0 THEN FALSE ELSE tx_waker
    /\ isr' = IsrIdle
    /\ hist' = [hist EXCEPT !.txPasses =
                    IF isr.free = cfg.txDepth /\ hist.txLast > 0
                    THEN Min(@ + 1, BUFLEN) ELSE @]
    /\ UNCHANGED <<cfg, rx_buf, rx_waker, rx_error, regVars, nvicVars, hwVars,
                   handleVars, rxt, txt, rxWoken>>

\* ----------------------------------------------------------------- RX task
\* A task runs only while the handler is not running, and the tasks share one
\* cooperative executor: one runs only while the other is between calls or suspended.
TaskRuns == isr.pc = "idle"
RxRuns == TaskRuns /\ txt.pc \in {"idle", "suspended"} /\ txh # "dropping"
TxRuns == TaskRuns /\ rxt.pc \in {"idle", "suspended"} /\ rxh # "dropping"

RxCanCall == RxRuns /\ rxh = "live" /\ rxt.pc = "idle" /\ rxt.op # "filled"

\* A call that goes on with an empty slice as with any other.
EmptyBufNever(len) == FALSE

\* try_read / write / blocking_write: buf.is_empty().
EmptyBuf(len) == len = 0

\* A copy length that is never 0.
TryReadLenAtLeastOne(avail, len) == IF Min(avail, len) = 0 THEN 1 ELSE Min(avail, len)

\* try_read's copy length: data.len().min(buf.len()).
TryReadLen(avail, len) == Min(avail, len)

\* read(buf) / blocking_read(buf) is called with a destination of `len` bytes.
RxCall(op, len) ==
    /\ RxCanCall
    /\ op \in cfg.rxOps \cap {"read", "blocking_read"}
    /\ len \in 0..cfg.slice
    /\ rxt' = IF EmptyBuf(len)
              THEN IF cfg.zeroLen THEN [RxIdle EXCEPT !.op = op] ELSE RxIdle
              ELSE [RxIdle EXCEPT !.pc = "pop_buf", !.op = op, !.len = len]
    /\ UNCHANGED <<cfg, stateVars, regVars, nvicVars, hwVars, isr, handleVars,
                   txt, rxWoken, txWoken, hist>>

\* try_read: rx_reader.pop, first half (pop_buf and the closure's length).
RxPopBuf ==
    /\ RxRuns /\ rxt.pc = "pop_buf" /\ rxt.op \in {"read", "blocking_read"}
    /\ rxt' = [rxt EXCEPT !.pc = "pop_done", !.pos = RbPopBuf(rx_buf).pos,
                          !.n = TryReadLen(RbPopBuf(rx_buf).n, rxt.len)]
    /\ UNCHANGED <<cfg, stateVars, regVars, nvicVars, hwVars, isr, handleVars,
                   txt, rxWoken, txWoken, hist>>

\* try_read: the copy and pop_done(n).
RxPopDone ==
    /\ RxRuns /\ rxt.pc = "pop_done"
    /\ rx_buf' = RbPopDone(rx_buf, rxt.n)
    /\ rxt' = [rxt EXCEPT !.pc = IF rxt.n = 0 THEN "take" ELSE "arm"]
    /\ hist' = [hist EXCEPT !.rxDelivered = @ \o RbLoad(rx_buf, rxt.pos, rxt.n)]
    /\ UNCHANGED <<cfg, tx_buf, rx_waker, tx_waker, rx_error, regVars, nvicVars,
                   hwVars, isr, handleVars, txt, rxWoken, txWoken>>

\* Where a call goes when get_rx_error found no fault.
RxAfterNone(op) == IF op = "blocking_read" THEN "pop_buf" ELSE "register"

\* A get_rx_error that reads the error word and leaves it as it is.
TakeKeeps(errs) == errs

\* get_rx_error: the word stored back after the load.
TakeStores(errs) == {}

\* get_rx_error (a critical section), and the branch on its result.
RxTake ==
    /\ RxRuns /\ rxt.pc = "take"
    /\ rx_error' = TakeStores(rx_error)
    /\ LET e == GetRxErrorKind(rx_error)
       IN  /\ rxt' = IF e = "None" THEN [rxt EXCEPT !.pc = RxAfterNone(rxt.op)]
                     ELSE IF rxt.op = "fill_buf" THEN RxIdle
                     ELSE [rxt EXCEPT !.pc = "arm", !.err = e]
           /\ hist' = IF e = "None" THEN [hist EXCEPT !.latchedSince = FALSE]
                      ELSE [hist
                            EXCEPT !.rxErrAt = Len(hist.rxDelivered),
                                   !.rxErrMark = hist.rxLatchMark,
                                   !.rxErrs = Min(@ + 1, MaxCalls),
                                   !.lastErr = e,
                                   !.errFresh = @ /\ hist.latchedSince,
                                   !.latchedSince = FALSE]
    /\ UNCHANGED <<cfg, rx_buf, tx_buf, rx_waker, tx_waker, regVars, nvicVars,
                   hwVars, isr, handleVars, txt, rxWoken, txWoken>>

\* get_rx_error step by step: the critical section is entered and rx_error loaded.
RxTakeLoad ==
    /\ RxRuns /\ rxt.pc = "take"
    /\ rxt' = [rxt EXCEPT !.pc = "take_store", !.val = rx_error]
    /\ UNCHANGED <<cfg, stateVars, regVars, nvicVars, hwVars, isr, handleVars,
                   txt, rxWoken, txWoken, hist>>

\* get_rx_error step by step: the store of 0, the end of the critical section,
\* and the branch on the value that was loaded.
RxTakeStore ==
    /\ RxRuns /\ rxt.pc = "take_store"
    /\ rx_error' = TakeStores(rxt.val)
    /\ LET e == GetRxErrorKind(rxt.val)
       IN  /\ rxt' = IF e = "None"
                     THEN [rxt EXCEPT !.pc = RxAfterNone(rxt.op), !.val = {}]
                     ELSE IF rxt.op = "fill_buf" THEN RxIdle
                     ELSE [rxt EXCEPT !.pc = "arm", !.err = e, !.val = {}]
           /\ hist' = IF e = "None" THEN [hist EXCEPT !.latchedSince = FALSE]
                      ELSE [hist
                            EXCEPT !.rxErrAt = Len(hist.rxDelivered),
                                   !.rxErrMark = hist.rxLatchMark,
                                   !.rxErrs = Min(@ + 1, MaxCalls),
                                   !.lastErr = e,
                                   !.errFresh = @ /\ hist.latchedSince,
                                   !.latchedSince = FALSE]
    /\ UNCHANGED <<cfg, rx_buf, tx_buf, rx_waker, tx_waker, regVars, nvicVars,
                   hwVars, isr, handleVars, txt, rxWoken, txWoken>>

\* A consumer that returns without arming the RX data interrupt.
RxArmNothing == {}

\* try_read / consume: the bit written to FIFOINTENSET.
RxArmBits == {"rxlvl"}

\* try_read / consume: fifointenset rxlvl, then the call returns.
RxArm ==
    /\ RxRuns /\ rxt.pc = "arm"
    /\ fifointen' = fifointen \cup RxArmBits
    /\ rxt' = RxIdle
    /\ UNCHANGED <<cfg, stateVars, intenset, nvicVars, hwVars, isr, handleVars,
                   txt, rxWoken, txWoken, hist>>

\* read / fill_buf: rx_waker.register(cx.waker()), then Poll::Pending.
RxRegister ==
    /\ RxRuns /\ rxt.pc = "register"
    /\ rx_waker' = TRUE
    /\ rxt' = [rxt EXCEPT !.pc = "suspended"]
    /\ UNCHANGED <<cfg, rx_buf, tx_buf, tx_waker, rx_error, regVars, nvicVars,
                   hwVars, isr, handleVars, txt, rxWoken, txWoken, hist>>

\* The executor polls the woken task again: the poll restarts from the top.
RxPoll ==
    /\ RxRuns /\ rxt.pc = "suspended" /\ rxWoken
    /\ rxWoken' = FALSE
    /\ rxt' = [rxt EXCEPT !.pc = "pop_buf"]
    /\ UNCHANGED <<cfg, stateVars, regVars, nvicVars, hwVars, isr, handleVars,
                   txt, txWoken, hist>>

\* fill_buf is called.
RxFillCall ==
    /\ RxCanCall
    /\ "fill_buf" \in cfg.rxOps
    /\ rxt' = [RxIdle EXCEPT !.pc = "pop_buf", !.op = "fill_buf"]
    /\ UNCHANGED <<cfg, stateVars, regVars, nvicVars, hwVars, isr, handleVars,
                   txt, rxWoken, txWoken, hist>>

\* fill_buf: pop_buf; a non-empty slice is returned as it is.
RxFillPopBuf ==
    /\ RxRuns /\ rxt.pc = "pop_buf" /\ rxt.op = "fill_buf"
    /\ rxt' = IF RbPopBuf(rx_buf).n = 0 THEN [rxt EXCEPT !.pc = "take"]
              ELSE [RxIdle EXCEPT !.op = "filled", !.pos = RbPopBuf(rx_buf).pos,
                                  !.n = RbPopBuf(rx_buf).n]
    /\ UNCHANGED <<cfg, stateVars, regVars, nvicVars, hwVars, isr, handleVars,
                   txt, rxWoken, txWoken, hist>>

\* consume(amt), amt within the slice fill_buf returned: pop_done(amt).
RxConsume(amt) ==
    /\ RxRuns /\ rxh = "live" /\ rxt.pc = "idle" /\ rxt.op = "filled"
    /\ amt \in 0..rxt.n
    /\ rx_buf' = RbPopDone(rx_buf, amt)
    /\ rxt' = [RxIdle EXCEPT !.pc = "arm", !.op = "consume", !.n = amt]
    /\ hist' = [hist EXCEPT !.rxDelivered = @ \o RbLoad(rx_buf, rxt.pos, amt)]
    /\ UNCHANGED <<cfg, tx_buf, rx_waker, tx_waker, rx_error, regVars, nvicVars,
                   hwVars, isr, handleVars, txt, rxWoken, txWoken>>

\* A readiness that reports the ring being attached.
ReadReadyAvailable(rxb) == RbIsAvailable(rxb)

\* read_ready: !state.rx_buf.is_empty().
ReadReady(rxb) == ~RbIsEmpty(rxb)

\* read_ready(): the answer is kept in the idle task record, n = 1 for true.
RxReadReady ==
    /\ RxCanCall
    /\ rxt' = [RxIdle EXCEPT !.op = "read_ready",
                             !.n = IF ReadReady(rx_buf) THEN 1 ELSE 0]
    /\ UNCHANGED <<cfg, stateVars, regVars, nvicVars, hwVars, isr, handleVars,
                   txt, rxWoken, txWoken, hist>>

\* ----------------------------------------------------------------- TX task
TxCanCall == TxRuns /\ txh = "live" /\ txt.pc = "idle"

\* The source of a write: the next `len` bytes of the producer's stream.
TxSource(len) == [i \in 1..len |-> hist.txOffered + i]

\* A copy length that takes the whole source whatever space is offered.
WriteLenAll(free, len) == len

\* write's copy length: data.len().min(buf.len()).
WriteLen(free, len) == Min(free, len)

\* write(buf) / blocking_write(buf) is called with a source of `len` bytes.
TxCall(op, len) ==
    /\ TxCanCall
    /\ op \in cfg.txOps \cap {"write", "blocking_write"}
    /\ len \in 0..cfg.slice
    /\ hist.txOffered + len <= cfg.txBytes
    /\ txt' = IF EmptyBuf(len)
              THEN IF cfg.zeroLen THEN [TxIdle EXCEPT !.op = op] ELSE TxIdle
              ELSE [TxIdle EXCEPT !.pc = "push_buf", !.op = op, !.len = len]
    /\ UNCHANGED <<cfg, stateVars, regVars, nvicVars, hwVars, isr, handleVars,
                   rxt, rxWoken, txWoken, hist>>

\* write: tx_writer.push, first half (push_buf and the closure's length).
TxPushBuf ==
    /\ TxRuns /\ txt.pc = "push_buf"
    /\ txt' = [txt EXCEPT !.pc = "push_done", !.pos = RbPushBuf(tx_buf).pos,
                          !.n = WriteLen(RbPushBuf(tx_buf).n, txt.len)]
    /\ UNCHANGED <<cfg, stateVars, regVars, nvicVars, hwVars, isr, handleVars,
                   rxt, rxWoken, txWoken, hist>>

\* A write that returns when push accepted nothing.
TxAfterZeroReturns(op) == "idle"

\* Where a write goes when push accepted nothing.
TxAfterZero(op) == IF op = "blocking_write" THEN "push_buf" ELSE "register"

\* write: the copy and push_done(n).
\* A write that returns what it queued without pending the interrupt.
WritePendsNever(n) == FALSE

\* write / blocking_write: the interrupt is pended when bytes were queued.
WritePends(n) == n # 0

TxPushDone ==
    /\ TxRuns /\ txt.pc = "push_done"
    /\ tx_buf' = RbPushDone(RbStore(tx_buf, txt.pos, SubSeq(TxSource(txt.len), 1, txt.n)), txt.n)
    /\ txt' = [txt EXCEPT !.pc = IF WritePends(txt.n) THEN "pend"
                                 ELSE IF txt.n = 0 THEN TxAfterZero(txt.op) ELSE "idle"]
    /\ hist' = [hist EXCEPT !.txAccepted = @ \o SubSeq(TxSource(txt.len), 1, txt.n),
                            !.txOffered = @ + txt.n,
                            !.txLast = IF txt.n > 0 THEN txt.n ELSE @,
                            !.txPasses = IF txt.n > 0 THEN 0 ELSE @]
    /\ UNCHANGED <<cfg, rx_buf, rx_waker, tx_waker, rx_error, regVars, nvicVars,
                   hwVars, isr, handleVars, rxt, rxWoken, txWoken>>

\* write: info.interrupt.pend(), then Ok(n).
TxPend ==
    /\ TxRuns /\ txt.pc = "pend"
    /\ irqPending' = TRUE
    /\ txt' = TxIdle
    /\ hist' = [hist EXCEPT !.pendLife = hist.lives]
    /\ UNCHANGED <<cfg, stateVars, regVars, irqEnabled, hwVars, isr, handleVars,
                   rxt, rxWoken, txWoken>>

\* flush() / blocking_flush() is called.
TxFlushCall(op) ==
    /\ TxCanCall
    /\ op \in cfg.txOps \cap {"flush", "blocking_flush"}
    /\ txt' = [TxIdle EXCEPT !.pc = "flush", !.op = op]
    /\ UNCHANGED <<cfg, stateVars, regVars, nvicVars, hwVars, isr, handleVars,
                   rxt, rxWoken, txWoken, hist>>

\* A flush that returns without looking at the TX ring.
FlushReadyAlways(txb) == TRUE

\* flush completes: its test of tx_buf.is_empty().
FlushReady(txb) == RbIsEmpty(txb)

\* flush / blocking_flush: the buffer is empty, Ok(()).
TxFlushDone ==
    /\ TxRuns /\ txt.pc = "flush"
    /\ FlushReady(tx_buf)
    /\ txt' = TxIdle
    /\ hist' = [hist EXCEPT !.flushUsed = RbUsed(tx_buf)]
    /\ UNCHANGED <<cfg, stateVars, regVars, nvicVars, hwVars, isr, handleVars,
                   rxt, rxWoken, txWoken>>

\* flush: the buffer is not empty, the poll goes on to register its waker
\* (blocking_flush tests again: no step).
TxFlushWait ==
    /\ TxRuns /\ txt.pc = "flush" /\ txt.op = "flush"
    /\ ~FlushReady(tx_buf)
    /\ txt' = [txt EXCEPT !.pc = "register"]
    /\ UNCHANGED <<cfg, stateVars, regVars, nvicVars, hwVars, isr, handleVars,
                   rxt, rxWoken, txWoken, hist>>

\* write / flush: tx_waker.register(cx.waker()), then Poll::Pending.
TxRegister ==
    /\ TxRuns /\ txt.pc = "register"
    /\ tx_waker' = TRUE
    /\ txt' = [txt EXCEPT !.pc = "suspended"]
    /\ hist' = [hist EXCEPT !.txRegBusy = ~RbIsEmpty(tx_buf)]
    /\ UNCHANGED <<cfg, rx_buf, tx_buf, rx_waker, rx_error, regVars, nvicVars,
                   hwVars, isr, handleVars, rxt, rxWoken, txWoken>>

\* The executor polls the woken task again.
TxPoll ==
    /\ TxRuns /\ txt.pc = "suspended" /\ txWoken
    /\ txWoken' = FALSE
    /\ txt' = [txt EXCEPT !.pc = IF txt.op = "flush" THEN "flush" ELSE "push_buf"]
    /\ hist' = [hist EXCEPT !.txRegBusy = FALSE]
    /\ UNCHANGED <<cfg, stateVars, regVars, nvicVars, hwVars, isr, handleVars,
                   rxt, rxWoken>>

\* -------------------------------------------------------------------- drop
\* A drop of the receive half that disables the line whatever tx_buf says.
DropRxDisablesAlways(txb) == TRUE
\* A drop of the transmit half that disables the line whatever rx_buf says.
DropTxDisablesAlways(rxb) == TRUE

\* Drop for BufferedUartRx disables the line: its test of the other buffer.
DropRxDisables(txb) == ~RbIsAvailable(txb)
\* Drop for BufferedUartTx disables the line.
DropTxDisables(rxb) == ~RbIsAvailable(rxb)

\* Drop for BufferedUartRx: rx_buf.deinit().
DropRxDeinit ==
    /\ RxRuns /\ rxh = "live" /\ rxt.pc = "idle"
    /\ rx_buf' = RbDeinit
    /\ rxh' = "dropping"
    /\ rxt' = RxIdle
    /\ UNCHANGED <<cfg, tx_buf, rx_waker, tx_waker, rx_error, regVars, nvicVars,
                   hwVars, isr, txh, txt, rxWoken, txWoken, hist>>

\* Drop for BufferedUartRx: the test of tx_buf and interrupt.disable().
DropRxFinish ==
    /\ TaskRuns /\ rxh = "dropping"
    /\ irqEnabled' = IF DropRxDisables(tx_buf) THEN FALSE ELSE irqEnabled
    /\ hist' = [hist EXCEPT !.disables = IF DropRxDisables(tx_buf) THEN @ + 1 ELSE @,
                            !.firstDrop = IF @ = "none" THEN "rx" ELSE @]
    /\ rxh' = "dropped"
    /\ UNCHANGED <<cfg, stateVars, regVars, irqPending, hwVars, isr, txh, taskVars>>

\* Drop for BufferedUartTx: tx_buf.deinit().
DropTxDeinit ==
    /\ TxRuns /\ txh = "live" /\ txt.pc = "idle"
    /\ tx_buf' = RbDeinit
    /\ txh' = "dropping"
    /\ txt' = TxIdle
    /\ UNCHANGED <<cfg, rx_buf, rx_waker, tx_waker, rx_error, regVars, nvicVars,
                   hwVars, isr, rxh, rxt, rxWoken, txWoken, hist>>

\* Drop for BufferedUartTx: the test of rx_buf and interrupt.disable().
DropTxFinish ==
    /\ TaskRuns /\ txh = "dropping"
    /\ irqEnabled' = IF DropTxDisables(rx_buf) THEN FALSE ELSE irqEnabled
    /\ hist' = [hist EXCEPT !.disables = IF DropTxDisables(rx_buf) THEN @ + 1 ELSE @,
                            !.firstDrop = IF @ = "none" THEN "tx" ELSE @]
    /\ txh' = "dropped"
    /\ UNCHANGED <<cfg, stateVars, regVars, irqPending, hwVars, isr, rxh, taskVars>>

\* ---------------------------------------------------------- specifications
Isr == IsrEntry \/ IsrRxRead \/ IsrRxEnd \/ IsrTxWrite \/ IsrTxEnd
IsrRxOnly == IsrEntry \/ IsrRxRead \/ IsrRxEnd
IsrTxOnly == IsrEntry \/ IsrTxWrite \/ IsrTxEnd

\* The steps of a consumer call in progress, and the executor's poll.
RxSteps ==
    RxPopBuf \/ RxPopDone \/ RxTake \/ RxArm \/ RxRegister \/ RxPoll \/ RxFillPopBuf

RxTask ==
    \/ \E op \in {"read", "blocking_read"}, len \in 0..MaxSlice : RxCall(op, len)
    \/ RxFillCall
    \/ \E amt \in 0..MaxSlice + 1 : RxConsume(amt)
    \/ RxSteps

\* The steps of a producer call in progress, and the executor's poll.
TxSteps ==
    TxPushBuf \/ TxPushDone \/ TxPend \/ TxFlushDone \/ TxFlushWait \/ TxRegister \/ TxPoll

TxTask ==
    \/ \E op \in {"write", "blocking_write"}, len \in 0..MaxSlice + 1 : TxCall(op, len)
    \/ \E op \in {"flush", "blocking_flush"} : TxFlushCall(op)
    \/ TxSteps

DropRx == DropRxDeinit \/ DropRxFinish
DropTx == DropTxDeinit \/ DropTxFinish

FaultSets == {{}, {RXE_FRAMERR}, {RXE_NOISE, RXE_PARITYERR}}

\* The whole driver on small storage: every constructor, both tasks, both drops.
CfgSys ==
    [ rxLens |-> {2}, txLens |-> {2}, rxDepth |-> 1, txDepth |-> 1,
      rxBytes |-> SysBytes, txBytes |-> SysBytes, slice |-> 1,
      faults |-> {{}, {RXE_FRAMERR}}, faultAt |-> 0, lives |-> MaxLives, shiftInPass |-> TRUE, zeroLen |-> FALSE,
      rxOps |-> {"read", "fill_buf"}, txOps |-> {"write", "flush"} ]

Init == InitState(CfgSys)

Next ==
    \/ \E f \in FaultSets : HwRxByte(f)
    \/ HwTxShift
    \/ \E t \in 1..3, r \in 1..3 : NewUart(t, r)
    \/ \E r \in 1..3 : NewRx(r)
    \/ \E t \in 1..3 : NewTx(t)
    \/ \E kind \in {"uart", "rx", "tx"} : NewRejected(kind)
    \/ Isr \/ RxTask \/ TxTask \/ DropRx \/ DropTx

Spec == Init /\ [][Next]_vars

\* The receive direction alone: a BufferedUartRx on storage of 2 and 3 bytes.
CfgRx ==
    [ rxLens |-> {2, 3}, txLens |-> {}, rxDepth |-> 2, txDepth |-> 1,
      rxBytes |-> MaxRxBytes, txBytes |-> 0, slice |-> MaxSlice,
      faults |-> FaultSets, faultAt |-> 0, lives |-> 1, shiftInPass |-> TRUE, zeroLen |-> FALSE,
      rxOps |-> {"read", "blocking_read", "fill_buf"}, txOps |-> {} ]

InitRx == InitState(CfgRx)

NextRx ==
    \/ \E f \in FaultSets : HwRxByte(f)
    \/ \E r \in 1..3 : NewRx(r)
    \/ IsrRxOnly \/ RxTask \/ DropRx

SpecRx == InitRx /\ [][NextRx]_vars

\* The interrupt is taken when it is pending and enabled, the handler and a call
\* in progress run on, and the executor polls a woken task.
SpecRxFair == SpecRx /\ WF_vars(IsrRxOnly) /\ WF_vars(RxSteps)

\* The transmit direction alone: a BufferedUartTx on storage of 2 and 3 bytes.
CfgTx ==
    [ rxLens |-> {}, txLens |-> {2, 3}, rxDepth |-> 1, txDepth |-> 2,
      rxBytes |-> 0, txBytes |-> MaxTxBytes, slice |-> MaxSlice + 1,
      faults |-> {{}}, faultAt |-> 0, lives |-> 1, shiftInPass |-> TRUE, zeroLen |-> FALSE,
      rxOps |-> {}, txOps |-> {"write", "blocking_write", "flush", "blocking_flush"} ]

InitTx == InitState(CfgTx)

NextTx ==
    \/ HwTxShift
    \/ \E t \in 1..3 : NewTx(t)
    \/ IsrTxOnly \/ TxTask \/ DropTx

SpecTx == InitTx /\ [][NextTx]_vars

\* As above, and the transmitter keeps shifting characters out.
SpecTxFair == SpecTx /\ WF_vars(IsrTxOnly) /\ WF_vars(TxSteps) /\ WF_vars(HwTxShift)

\* The transmit half of the buffered-uart example: storage of BUFLEN bytes, a
\* write of BUFLEN - 1 bytes and a flush, while the receive half takes
\* characters one at a time.  The TX FIFO takes 8 characters in a pass of the
\* handler: it holds 8 and shifts none out while the handler runs.
CfgExampleTx ==
    [ rxLens |-> {2}, txLens |-> {BUFLEN}, rxDepth |-> 1, txDepth |-> 8,
      rxBytes |-> 3, txBytes |-> BUFLEN - 1, slice |-> BUFLEN - 1,
      faults |-> {{}}, faultAt |-> 0, lives |-> 1, shiftInPass |-> FALSE, zeroLen |-> FALSE,
      rxOps |-> {"read"}, txOps |-> {"write", "flush"} ]

InitExampleTx == InitState(CfgExampleTx)

NextExampleTx ==
    \/ HwRxByte({})
    \/ HwTxShift
    \/ NewUart(BUFLEN, 2)
    \/ Isr
    \/ RxCall("read", 1) \/ RxPopBuf \/ RxPopDone \/ RxTake \/ RxArm \/ RxRegister \/ RxPoll
    \/ TxCall("write", BUFLEN - 1)
    \/ TxFlushCall("flush")
    \/ TxSteps

SpecExampleTx == InitExampleTx /\ [][NextExampleTx]_vars

\* The receive half on storage of BUFLEN bytes: 48 characters arrive, the
\* consumer borrows with fill_buf and releases 0, 1 or 16 bytes, or reads 16.
CfgExampleRx ==
    [ rxLens |-> {BUFLEN}, txLens |-> {}, rxDepth |-> 2, txDepth |-> 1,
      rxBytes |-> 48, txBytes |-> 0, slice |-> 16,
      faults |-> {{}}, faultAt |-> 0, lives |-> 1, shiftInPass |-> TRUE, zeroLen |-> FALSE,
      rxOps |-> {"read", "fill_buf"}, txOps |-> {} ]

InitExampleRx == InitState(CfgExampleRx)

NextExampleRx ==
    \/ HwRxByte({})
    \/ NewRx(BUFLEN)
    \/ IsrRxOnly
    \/ RxCall("read", 16)
    \/ RxFillCall
    \/ \E amt \in {0, 1, 16} : RxConsume(amt)
    \/ RxSteps

SpecExampleRx == InitExampleRx /\ [][NextExampleRx]_vars

\* Five clean characters, a framing fault on the sixth, clean characters after
\* it; the consumer reads into 8 bytes.
CfgFraming ==
    [ rxLens |-> {8}, txLens |-> {}, rxDepth |-> 2, txDepth |-> 1,
      rxBytes |-> 7, txBytes |-> 0, slice |-> 8,
      faults |-> {{}, {RXE_FRAMERR}}, faultAt |-> 6, lives |-> 1, shiftInPass |-> TRUE, zeroLen |-> FALSE,
      rxOps |-> {"read", "fill_buf"}, txOps |-> {} ]

InitFraming == InitState(CfgFraming)

NextFraming ==
    \/ \E f \in {{}, {RXE_FRAMERR}} : HwRxByte(f)
    \/ NewRx(8)
    \/ IsrRxOnly
    \/ RxCall("read", 8)
    \/ RxFillCall
    \/ \E amt \in {1, 5} : RxConsume(amt)
    \/ RxSteps

SpecFraming == InitFraming /\ [][NextFraming]_vars

\* Receive faults of every kind: each character may set any of the four fault
\* flags of STAT, on storage of 2 bytes.
CfgFaults ==
    [ rxLens |-> {2}, txLens |-> {}, rxDepth |-> 1, txDepth |-> 1,
      rxBytes |-> MaxSlice, txBytes |-> 0, slice |-> 1,
      faults |-> SUBSET RxeMask, faultAt |-> 0, lives |-> 1, shiftInPass |-> TRUE, zeroLen |-> FALSE,
      rxOps |-> {"read", "blocking_read", "fill_buf"}, txOps |-> {} ]

InitFaults == InitState(CfgFaults)

NextFaults ==
    \/ \E f \in SUBSET RxeMask : HwRxByte(f)
    \/ NewRx(2)
    \/ IsrRxOnly \/ RxTask \/ RxReadReady \/ DropRx

SpecFaults == InitFaults /\ [][NextFaults]_vars

\* The error word between the two contexts: get_rx_error taken in two steps,
\* its load and its store, on storage of 2 bytes with faulted characters.
CfgWord ==
    [ rxLens |-> {2}, txLens |-> {}, rxDepth |-> 2, txDepth |-> 1,
      rxBytes |-> MaxSlice + 1, txBytes |-> 0, slice |-> 1,
      faults |-> FaultSets, faultAt |-> 0, lives |-> 1, shiftInPass |-> TRUE, zeroLen |-> FALSE,
      rxOps |-> {"read", "blocking_read", "fill_buf"}, txOps |-> {} ]

InitWord == InitState(CfgWord)

NextWord ==
    \/ \E f \in FaultSets : HwRxByte(f)
    \/ NewRx(2)
    \/ IsrRxOnly
    \/ \E op \in {"read", "blocking_read"} : RxCall(op, 1)
    \/ RxFillCall
    \/ \E amt \in 0..1 : RxConsume(amt)
    \/ RxPopBuf \/ RxPopDone \/ RxTakeLoad \/ RxTakeStore \/ RxArm
    \/ RxRegister \/ RxPoll \/ RxFillPopBuf
    \/ DropRx

SpecWord == InitWord /\ [][NextWord]_vars

\* Reads and writes of 1 and 2 bytes in both directions, on storage of 2 bytes
\* each side, with clean and faulted characters.
CfgXfer ==
    [ rxLens |-> {2}, txLens |-> {2}, rxDepth |-> 1, txDepth |-> 1,
      rxBytes |-> MaxSlice, txBytes |-> MaxSlice + 1, slice |-> MaxSlice,
      faults |-> {{}, {RXE_FRAMERR}}, faultAt |-> 0, lives |-> 1,
      shiftInPass |-> TRUE, zeroLen |-> FALSE,
      rxOps |-> {"read"}, txOps |-> {"write", "blocking_write"} ]

InitXfer == InitState(CfgXfer)

NextXfer ==
    \/ \E f \in {{}, {RXE_FRAMERR}} : HwRxByte(f)
    \/ HwTxShift
    \/ NewUart(2, 2)
    \/ Isr
    \/ \E len \in 1..MaxSlice : RxCall("read", len)
    \/ RxPopBuf \/ RxPopDone \/ RxTake \/ RxArm \/ RxRegister \/ RxPoll
    \/ \E op \in {"write", "blocking_write"}, len \in 1..MaxSlice : TxCall(op, len)
    \/ TxPushBuf \/ TxPushDone \/ TxPend \/ TxRegister \/ TxPoll

SpecXfer == InitXfer /\ [][NextXfer]_vars

\* The future of a suspended read or fill_buf is dropped: the task is between
\* calls again, and rx_waker keeps the waker that was registered.
RxAbandon ==
    /\ RxRuns /\ rxh = "live" /\ rxt.pc = "suspended"
    /\ rxt' = RxIdle
    /\ hist' = [hist EXCEPT !.abandoned = TRUE]
    /\ UNCHANGED <<cfg, stateVars, regVars, nvicVars, hwVars, isr, handleVars,
                   txt, rxWoken, txWoken>>

\* The future of a suspended write or flush is dropped.
TxAbandon ==
    /\ TxRuns /\ txh = "live" /\ txt.pc = "suspended"
    /\ txt' = TxIdle
    /\ hist' = [hist EXCEPT !.abandoned = TRUE]
    /\ UNCHANGED <<cfg, stateVars, regVars, nvicVars, hwVars, isr, handleVars,
                   rxt, rxWoken, txWoken>>

\* Suspended calls that are abandoned, in both directions on storage of 1 byte
\* each: read, fill_buf, write and flush.
CfgCancel ==
    [ rxLens |-> {1}, txLens |-> {1}, rxDepth |-> 1, txDepth |-> 1,
      rxBytes |-> SysBytes, txBytes |-> SysBytes + 1, slice |-> 1,
      faults |-> {{}}, faultAt |-> 0, lives |-> 1,
      shiftInPass |-> TRUE, zeroLen |-> FALSE,
      rxOps |-> {"read", "fill_buf"}, txOps |-> {"write", "flush"} ]

InitCancel == InitState(CfgCancel)

NextCancel ==
    \/ HwRxByte({})
    \/ HwTxShift
    \/ NewUart(1, 1)
    \/ Isr
    \/ RxCall("read", 1) \/ RxFillCall \/ \E amt \in 0..1 : RxConsume(amt)
    \/ RxPopBuf \/ RxPopDone \/ RxTake \/ RxArm \/ RxRegister \/ RxPoll
    \/ RxFillPopBuf \/ RxAbandon
    \/ TxCall("write", 1) \/ TxFlushCall("flush")
    \/ TxPushBuf \/ TxPushDone \/ TxPend \/ TxFlushDone \/ TxFlushWait
    \/ TxRegister \/ TxPoll \/ TxAbandon

SpecCancel == InitCancel /\ [][NextCancel]_vars

\* Handler passes over both directions: more characters arrive than the RX
\* ring has room for, with and without faults, while blocking calls take and
\* queue bytes one at a time.
CfgPass ==
    [ rxLens |-> {2}, txLens |-> {2}, rxDepth |-> 1, txDepth |-> 1,
      rxBytes |-> MaxSlice + 1, txBytes |-> MaxSlice + 1, slice |-> 1,
      faults |-> {{}, {RXE_FRAMERR}}, faultAt |-> 0, lives |-> 1,
      shiftInPass |-> TRUE, zeroLen |-> FALSE,
      rxOps |-> {"blocking_read"}, txOps |-> {"blocking_write"} ]

InitPass == InitState(CfgPass)

NextPass ==
    \/ \E f \in {{}, {RXE_FRAMERR}} : HwRxByte(f)
    \/ HwTxShift
    \/ NewUart(2, 2)
    \/ Isr
    \/ RxCall("blocking_read", 1)
    \/ RxPopBuf \/ RxPopDone \/ RxTake \/ RxArm
    \/ TxCall("blocking_write", 1)
    \/ TxPushBuf \/ TxPushDone \/ TxPend

SpecPass == InitPass /\ [][NextPass]_vars

\* The handler, once entered, runs to its return.
SpecPassFair == SpecPass /\ WF_vars(Isr)

\* Both directions on storage of 1 byte each, with calls on empty slices told
\* apart from the task being idle: an idle task record that carries the name
\* of a call stands for that call having returned Ok(0).
CfgZero ==
    [ rxLens |-> {1}, txLens |-> {1}, rxDepth |-> 1, txDepth |-> 1,
      rxBytes |-> SysBytes + 1, txBytes |-> SysBytes, slice |-> 1,
      faults |-> {{}, {RXE_FRAMERR}}, faultAt |-> 0, lives |-> 1,
      shiftInPass |-> TRUE, zeroLen |-> TRUE,
      rxOps |-> {"read", "blocking_read", "fill_buf"},
      txOps |-> {"write", "blocking_write", "flush"} ]

InitZero == InitState(CfgZero)

NextZero ==
    \/ \E f \in {{}, {RXE_FRAMERR}} : HwRxByte(f)
    \/ HwTxShift
    \/ NewUart(1, 1)
    \/ Isr \/ RxTask \/ TxTask

SpecZero == InitZero /\ [][NextZero]_vars

\* One ring on its own, of every capacity from 1 to MaxRing, filled by the
\* push of write and emptied by the pop of try_read, whole calls interleaved
\* in every order; the bytes are numbered in the order they are pushed.
CfgRing ==
    [ rxLens |-> 1..MaxRing, txLens |-> {}, rxDepth |-> 1, txDepth |-> 1,
      rxBytes |-> 2 * MaxRing + 1, txBytes |-> 0, slice |-> MaxRing,
      faults |-> {{}}, faultAt |-> 0, lives |-> 1, shiftInPass |-> TRUE,
      zeroLen |-> FALSE, rxOps |-> {}, txOps |-> {} ]

InitRing == InitState(CfgRing)

\* RingBuffer::init on storage of n bytes.
RingAttach(n) ==
    /\ ~RbIsAvailable(rx_buf)
    /\ n \in cfg.rxLens
    /\ rx_buf' = RbInit(n)
    /\ UNCHANGED <<cfg, tx_buf, rx_waker, tx_waker, rx_error, regVars, nvicVars,
                   hwVars, isr, handleVars, taskVars, hist>>

\* writer.push(|data| { n = data.len().min(buf.len()); copy; n }) with a
\* source of k bytes; the task record keeps the call and its result.
RingPush(k) ==
    /\ RbIsAvailable(rx_buf)
    /\ k \in 1..cfg.slice
    /\ hist.rxProduced + k <= cfg.rxBytes
    /\ LET data == RbPushBuf(rx_buf)
           n == WriteLen(data.n, k)
           buf == [i \in 1..k |-> hist.rxProduced + i]
       IN  /\ rx_buf' = RbPushDone(RbStore(rx_buf, data.pos, SubSeq(buf, 1, n)), n)
           /\ rxt' = [RxIdle EXCEPT !.op = "push", !.len = k, !.n = n]
           /\ hist' = [hist EXCEPT !.rxProduced = @ + n,
                                   !.rxRemoved = @ \o SubSeq(buf, 1, n)]
    /\ UNCHANGED <<cfg, tx_buf, rx_waker, tx_waker, rx_error, regVars, nvicVars,
                   hwVars, isr, handleVars, txt, rxWoken, txWoken>>

\* reader.pop(|data| { n = data.len().min(buf.len()); copy; n }) with a
\* destination of k bytes.
RingPop(k) ==
    /\ RbIsAvailable(rx_buf)
    /\ k \in 1..cfg.slice
    /\ LET data == RbPopBuf(rx_buf)
           n == TryReadLen(data.n, k)
       IN  /\ rx_buf' = RbPopDone(rx_buf, n)
           /\ rxt' = [RxIdle EXCEPT !.op = "pop", !.len = k, !.n = n]
           /\ hist' = [hist EXCEPT !.rxDelivered = @ \o RbLoad(rx_buf, data.pos, n)]
    /\ UNCHANGED <<cfg, tx_buf, rx_waker, tx_waker, rx_error, regVars, nvicVars,
                   hwVars, isr, handleVars, txt, rxWoken, txWoken>>

NextRing ==
    \/ \E n \in 1..MaxRing : RingAttach(n)
    \/ \E k \in 1..MaxRing : RingPush(k)
    \/ \E k \in 1..MaxRing : RingPop(k)

SpecRing == InitRing /\ [][NextRing]_vars

\* ------------------------------------------------------------------ claims
IsPrefix(a, b) == Len(a) <= Len(b) /\ SubSeq(b, 1, Len(a)) = a

\* C1: when the consumer is handed a receive fault, every byte the handler
\* appended to the RX ring before it latched that fault has already been handed
\* to the consumer: the fault never overtakes bytes appended before it.
C1_FaultAfterBytes == hist.rxErrAt >= hist.rxErrMark

\* C2: for a handle built by the combined constructor, the interrupt line is
\* disabled exactly once, at the second of the two drops whichever half goes
\* first: never at the first drop, and after both drops both rings are
\* unavailable and the line is off.
C2_DisabledOnceAtSecondDrop ==
    hist.kind = "uart" =>
        /\ hist.disables = (IF rxh = "dropped" /\ txh = "dropped" THEN 1 ELSE 0)
        /\ (rxh = "dropped" /\ txh = "dropped") =>
               ~irqEnabled /\ ~RbIsAvailable(rx_buf) /\ ~RbIsAvailable(tx_buf)
        /\ (hist.firstDrop # "none" /\ ~(rxh = "dropped" /\ txh = "dropped")) => irqEnabled

C2_Witness ==
    /\ hist.kind = "uart" /\ hist.firstDrop = "tx"
    /\ rxh = "dropped" /\ txh = "dropped" /\ hist.disables = 1 /\ ~irqEnabled

\* C3: in every state after construction in which at least one ring is still
\* available, the interrupt line is enabled.
C3_EnabledWhileAvailable ==
    (RbIsAvailable(rx_buf) \/ RbIsAvailable(tx_buf)) => irqEnabled

C3_Witness ==
    /\ hist.kind = "uart" /\ rxh = "dropped" /\ txh = "live"
    /\ RbIsAvailable(tx_buf) /\ ~RbIsAvailable(rx_buf) /\ irqEnabled

\* C4: the bytes handed to the consumer are a prefix of the bytes the handler
\* took from the RX FIFO, in the same order: none lost, doubled or reordered,
\* across the wraparound of the ring.
C4_RxOrder == IsPrefix(hist.rxDelivered, hist.rxRemoved)

C4_Witness ==
    /\ Len(hist.rxDelivered) = MaxRxBytes
    /\ hist.rxDelivered = hist.rxRemoved

\* C5: the bytes the handler wrote to the TX FIFO are a prefix of the bytes the
\* write calls accepted, in the same order, across the wraparound of the ring.
C5_TxOrder == IsPrefix(hist.txWire, hist.txAccepted)

C5_Witness ==
    /\ Len(hist.txWire) = MaxTxBytes
    /\ hist.txWire = hist.txAccepted

\* C6: whenever a read is suspended while the RX ring holds bytes or a fault is
\* latched, the read is eventually woken and polled again: it never stays
\* suspended forever over a non-empty ring or a latched fault.
C6_NoLostRxWakeup ==
    (rxt.pc = "suspended" /\ (~RbIsEmpty(rx_buf) \/ rx_error \cap RxeMask # {}))
        ~> (rxt.pc # "suspended")

\* C7: once a write has queued bytes, the handler keeps being invoked until the
\* TX ring is empty, while the transmitter keeps shifting and with no further
\* write: a non-empty TX ring always empties.
C7_TxRingDrains ==
    (txh = "live" /\ ~RbIsEmpty(tx_buf)) ~> RbIsEmpty(tx_buf)

C9_MaskedWheneverFull ==
    (RbIsAvailable(rx_buf) /\ RbIsFull(rx_buf)) => "rxlvl" \notin fifointen

\* C9, amended: with RX storage of 32 bytes and 48 characters arriving, the
\* ring never holds more than 32 bytes, so that characters beyond the 32nd are
\* appended only after the consumer released as many; every pass of the handler
\* that leaves the ring full ends with the RX data interrupt masked; and the
\* interrupt is armed when a consume or a successful read returns, even over a
\* full ring.
C9_FullRingMasksUntilConsume ==
    /\ [](Len(hist.rxRemoved) <= Len(hist.rxDelivered) + BUFLEN)
    /\ [][(isr.pc = "rx" /\ isr'.pc # "rx" /\ RbIsFull(rx_buf')) =>
              "rxlvl" \notin fifointen']_vars
    /\ [][(rxt.pc = "arm" /\ rxt'.pc = "idle") => "rxlvl" \in fifointen']_vars

C9_Witness ==
    /\ Len(hist.rxRemoved) = 48 /\ Len(hist.rxDelivered) = 16
    /\ RbIsFull(rx_buf) /\ "rxlvl" \in fifointen
    /\ rxt.pc = "idle" /\ rxt.op = "none"

\* C10: with 5 clean characters and a framing fault on the sixth, the fault is
\* handed to the consumer once: no more faults are returned than faulted
\* characters arrived.
C10_FaultReportedOnce == hist.rxErrs <= hist.rxFaults

\* C11: a write call that queued bytes pends the interrupt exactly once, after
\* the bytes were pushed into the TX ring, and then returns; a call that queued
\* nothing does not pend, and nothing else in the driver pends the interrupt.
\* In particular a write into an empty ring with an idle transmitter.
C11_PendOncePerWrite ==
    /\ [](txt.pc = "pend" => /\ txt.n > 0 /\ hist.txLast = txt.n
                             /\ Len(hist.txAccepted) >= txt.n)
    /\ [][(txt.pc = "push_done" /\ txt'.pc # "push_done") =>
            /\ (txt.n > 0) <=> (txt'.pc = "pend")
            /\ irqPending' = irqPending]_vars
    /\ [][(txt.pc = "pend" /\ txt'.pc # "pend") =>
            /\ irqPending' /\ txt'.pc = "idle"
            /\ tx_buf' = tx_buf /\ hist'.txAccepted = hist.txAccepted]_vars
    /\ [][(irqPending' /\ ~irqPending) => txt.pc = "pend"]_vars

C11_Witness ==
    /\ txt.pc = "idle" /\ irqPending /\ hist.txLast > 0
    /\ hist.txWire = <<>> /\ txFifo = 0
    /\ RbUsed(tx_buf) = Len(hist.txAccepted) /\ Len(hist.txAccepted) = hist.txLast

\* C12: a latched fault is delivered once: every fault a consumer call returns
\* follows a latch by the handler since the previous get_rx_error, and the call
\* that takes the error word leaves it zero.
C12_FaultDeliveredOnce ==
    /\ [](hist.errFresh)
    /\ [][(rxt.pc = "take" /\ rxt'.pc # "take") => rx_error' = {}]_vars

C12_Witness ==
    /\ hist.rxErrs = 1 /\ rx_error = {} /\ ~hist.latchedSince
    /\ rxt.pc = "suspended"

\* C13: whatever non-empty set of the four fault bits is latched, the consumer
\* call that found no data and takes the error word reports one fault, the
\* first latched one in the order noise, parity, framing, break, and leaves no
\* bit latched.
C13_PriorityAndClear ==
    [][(rxt.pc = "take" /\ rxt'.pc # "take" /\ rx_error \cap RxeMask # {}) =>
         LET order == <<RXE_NOISE, RXE_PARITYERR, RXE_FRAMERR, RXE_BREAK>>
             names == <<"Noise", "Parity", "Framing", "Break">>
             first == CHOOSE k \in 1..4 :
                         /\ order[k] \in rx_error
                         /\ \A j \in 1..(k - 1) : order[j] \notin rx_error
         IN  /\ rx_error' = {}
             /\ hist'.lastErr = names[first]
             /\ hist'.rxErrs = Min(hist.rxErrs + 1, MaxCalls)
             /\ rxt.op # "fill_buf" => rxt'.err = names[first]
             /\ rx_buf' = rx_buf]_vars

C13_Witness ==
    /\ rxt.pc = "arm" /\ rxt.err = "Parity" /\ rx_error = {}
    /\ RbIsEmpty(rx_buf)
    /\ stat \cap RxeMask = {RXE_PARITYERR, RXE_FRAMERR, RXE_BREAK}

\* C14: a read or a write called with an empty slice returns Ok(0) at once in
\* every state: it does not start a transfer or suspend, and it leaves the
\* rings, the error word, the wakers, the interrupt enables and the pending
\* state of the interrupt line as they were.
C14_EmptySliceIsNoOp ==
    /\ [][(rxt.pc = "idle" /\ rxt' # rxt /\ rxt'.op \in {"read", "blocking_read"}
          /\ rxt'.len = 0) =>
            /\ rxt'.pc = "idle" /\ rxt'.n = 0 /\ rxt'.err = "None"
            /\ UNCHANGED <<stateVars, regVars, nvicVars, hwVars, rxWoken, txWoken>>]_vars
    /\ [][(txt.pc = "idle" /\ txt' # txt /\ txt'.op \in {"write", "blocking_write"}
          /\ txt'.len = 0) =>
            /\ txt'.pc = "idle" /\ txt'.n = 0
            /\ UNCHANGED <<stateVars, regVars, nvicVars, hwVars, rxWoken, txWoken>>
            /\ hist'.txAccepted = hist.txAccepted]_vars

C14_Witness ==
    /\ rxt.pc = "idle" /\ rxt.op = "read" /\ rxt.len = 0
    /\ RbIsEmpty(rx_buf) /\ rx_error \cap RxeMask # {}
    /\ txt.pc = "idle" /\ txt.op = "write" /\ txt.len = 0
    /\ RbIsFull(tx_buf) /\ irqPending

\* C15: the blocking and the asynchronous operations give the same results for
\* the same hardware events and calls; in particular, from a state where the
\* RX ring holds data or a fault is latched, a read in progress returns as a
\* blocking_read in progress does.
C15_BlockingAsAsync ==
    \A op \in {"blocking_read", "read"} :
        (rxt.op = op /\ rxt.pc # "idle"
           /\ (~RbIsEmpty(rx_buf) \/ rx_error \cap RxeMask # {}))
        ~> (rxt.pc = "idle")

\* C16: read_ready answers true exactly when the RX ring holds data, which is
\* exactly when a read into a non-empty destination would return at least one
\* byte at once; it answers false when only a fault is latched, and it changes
\* nothing.
C16_ReadReadyIffData ==
    [][(rxt' # rxt /\ rxt'.op = "read_ready") =>
         /\ rxt'.pc = "idle"
         /\ (rxt'.n = 1) <=> (RbUsed(rx_buf) > 0)
         /\ \A len \in 1..MaxSlice :
                (rxt'.n = 1) <=> (TryReadLen(RbPopBuf(rx_buf).n, len) >= 1)
         /\ (RbUsed(rx_buf) = 0 /\ rx_error \cap RxeMask # {}) => rxt'.n = 0
         /\ UNCHANGED <<stateVars, regVars, nvicVars, hwVars, rxWoken, hist>>]_vars

C16_Witness ==
    /\ rxt.pc = "idle" /\ rxt.op = "read_ready" /\ rxt.n = 0
    /\ rx_buf.start # 0 /\ RbIsEmpty(rx_buf)
    /\ rx_error \cap RxeMask # {}

\* C17: when Uart::init turns the configuration down, the constructor returns
\* without a handle and leaves the driver as it was: the rings, the error word
\* and the wakers, the interrupt enables and the line are unchanged, no ring is
\* attached, the line is not enabled, and in a driver never constructed before
\* no interrupt-enable bit is set.
C17_RejectedCtorChangesNothing ==
    [][(hist'.rejected # hist.rejected /\ hist'.rejected # "none") =>
         /\ UNCHANGED <<stateVars, regVars, nvicVars, handleVars, hwVars, taskVars>>
         /\ ~RbIsAvailable(rx_buf') /\ ~RbIsAvailable(tx_buf')
         /\ ~irqEnabled'
         /\ rxh' # "live" /\ txh' # "live"
         /\ hist.lives = 0 => intenset' = {} /\ fifointen' = {}]_vars

C17_Witness ==
    /\ hist.rejected = "uart" /\ hist.lives = 0
    /\ ~RbIsAvailable(rx_buf) /\ ~RbIsAvailable(tx_buf)
    /\ intenset = {} /\ fifointen = {} /\ ~irqEnabled

\* C18: a successful construction finds the line disabled, attaches the
\* storage it was given (each attached ring available and empty), sets the
\* fault and FIFO-level enables, and leaves the line enabled and not pending;
\* the handler is never entered on a pend raised in an earlier lifetime.
C18_ConstructionStartsClean ==
    /\ [][(hist'.lives # hist.lives) =>
            /\ ~irqEnabled /\ ~RbIsAvailable(rx_buf) /\ ~RbIsAvailable(tx_buf)
            /\ hist'.kind \in {"uart", "rx"} =>
                   RbIsAvailable(rx_buf') /\ RbIsEmpty(rx_buf') /\ RbUsed(rx_buf') = 0
            /\ hist'.kind \in {"uart", "tx"} =>
                   RbIsAvailable(tx_buf') /\ RbIsEmpty(tx_buf') /\ RbUsed(tx_buf') = 0
            /\ hist'.kind = "rx" => ~RbIsAvailable(tx_buf')
            /\ hist'.kind = "tx" => ~RbIsAvailable(rx_buf')
            /\ ErrEnables \subseteq intenset'
            /\ {"rxlvl", "txlvl"} \subseteq fifointen'
            /\ ~irqPending' /\ irqEnabled']_vars
    /\ [][(isr.pc = "idle" /\ isr'.pc # "idle" /\ irqPending) =>
            hist.pendLife = hist.lives]_vars

C18_Witness ==
    /\ hist.lives = MaxLives /\ hist.unpended
    /\ irqEnabled /\ ~irqPending /\ isr.pc = "idle"
    /\ rxh = "live" /\ RbIsAvailable(rx_buf) /\ RbIsEmpty(rx_buf)

\* C19: for a ring of any capacity, whatever the interleaving of pushes and
\* pops, the occupancy never exceeds the capacity and the bytes popped so far
\* followed by the bytes still in the ring, read from the read cursor around
\* the end of the storage, are the bytes pushed, in the order they were pushed.
C19_RingKeepsOrder ==
    RbIsAvailable(rx_buf) =>
        LET N == rx_buf.len
            unread == [i \in 1..RbUsed(rx_buf) |->
                          rx_buf.mem[((RbFold(rx_buf, rx_buf.start) + i - 1) % N) + 1]]
        IN  /\ RbUsed(rx_buf) <= N
            /\ hist.rxDelivered \o unread = hist.rxRemoved
            /\ \A i \in 1..Len(hist.rxRemoved) : hist.rxRemoved[i] = i

C19_Witness ==
    /\ rx_buf.len = 3 /\ rxt.op = "pop"
    /\ Len(hist.rxDelivered) = 2 * MaxRing + 1
    /\ hist.rxDelivered = hist.rxRemoved

\* C20: a push into a full ring is offered no space, returns 0 and leaves the
\* cursors and the stored bytes as they were; a pop from an empty ring is
\* offered no data, returns 0 and leaves the cursors as they were.
C20_FullPushEmptyPopAreNoOps ==
    /\ [][(rxt' # rxt /\ rxt'.op = "push" /\ RbUsed(rx_buf) = rx_buf.len) =>
            /\ RbPushBuf(rx_buf).n = 0
            /\ rxt'.n = 0
            /\ rx_buf' = rx_buf
            /\ hist'.rxRemoved = hist.rxRemoved]_vars
    /\ [][(rxt' # rxt /\ rxt'.op = "pop" /\ RbUsed(rx_buf) = 0) =>
            /\ RbPopBuf(rx_buf).n = 0
            /\ rxt'.n = 0
            /\ rx_buf' = rx_buf
            /\ hist'.rxDelivered = hist.rxDelivered]_vars

C20_Witness ==
    /\ rxt.op = "push" /\ rxt.n = 0 /\ rx_buf.len = 3
    /\ RbIsFull(rx_buf) /\ rx_buf.start > rx_buf.len
    /\ Len(hist.rxDelivered) > 0

C22_FaultStopsThePass ==
    /\ [][(isr.pc = "rx" /\ stat \cap RxeMask # {}) =>
            /\ hist'.rxRemoved = hist.rxRemoved
            /\ IsPrefix(rxFifo, rxFifo')
            /\ rx_buf'.mem = rx_buf.mem]_vars
    /\ [][(isr.pc = "rx" /\ isr'.pc # "rx" /\ isr.i < isr.n /\ rxFifo # <<>>
             /\ stat \cap RxeMask # {}) =>
            /\ (rx_error \cup (stat \cap RxeMask)) \subseteq rx_error'
            /\ rx_buf'.start = rx_buf.start
            /\ RbUsed(rx_buf') = RbUsed(rx_buf) + isr.i
            /\ rxFifo' = rxFifo]_vars

C22_Witness ==
    /\ isr.pc = "idle" /\ rx_error \cap RxeMask # {} /\ rxFifo # <<>>
    /\ hist.rxLatchMark = Len(hist.rxRemoved) /\ hist.rxLatchMark > 0
    /\ hist.rxDelivered = <<>> /\ RbUsed(rx_buf) = hist.rxLatchMark
    /\ ~RbIsFull(rx_buf)

\* C23: the RX half of a handler pass wakes the RX waiter exactly when it read
\* at least one character in the pass or met a fault; otherwise it leaves the
\* waker registered and the task unwoken, and nothing wakes the RX task but
\* the end of an RX loop over an attached ring.
C23_WakeIffDataOrFault ==
    /\ [][(isr.pc = "rx" /\ isr'.pc # "rx") =>
            LET fault == isr.i < isr.n /\ rxFifo # <<>> /\ stat \cap RxeMask # {}
            IN  IF isr.i > 0 \/ fault
                THEN /\ ~rx_waker'
                     /\ rxWoken' = (rxWoken \/ rx_waker)
                ELSE /\ rx_waker' = rx_waker
                     /\ rxWoken' = rxWoken]_vars
    /\ [][(rxWoken' /\ ~rxWoken) =>
            /\ isr.pc = "rx" /\ isr'.pc # "rx" /\ RbIsAvailable(rx_buf)
            /\ rx_waker]_vars
    /\ [][(isr.pc = "idle" /\ isr'.pc # "idle" /\ ~RbIsAvailable(rx_buf)) =>
            isr'.pc # "rx"]_vars

C23_Witness ==
    /\ rxWoken /\ ~rx_waker /\ rxt.pc = "suspended" /\ isr.pc # "rx"
    /\ RbIsEmpty(rx_buf) /\ rx_error \cap RxeMask # {}
    /\ hist.rxRemoved = <<>>

\* C24: the RX half of a pass that leaves the ring full or that met a fault
\* ends with the RX level interrupt disabled, and the rest of the pass keeps it
\* so; a read or blocking_read that removed bytes and every consume go on to
\* set the RX level enable before they return; the steps of a read that finds
\* nothing and stays pending leave the FIFO interrupt enables as they are.
C24_MaskAndRearm ==
    /\ [][(isr.pc = "rx" /\ isr'.pc # "rx") =>
            LET fault == isr.i < isr.n /\ rxFifo # <<>> /\ stat \cap RxeMask # {}
            IN  (RbUsed(rx_buf') = rx_buf'.len \/ fault) => "rxlvl" \notin fifointen']_vars
    /\ [][(isr.pc = "tx") => (fifointen' = fifointen /\ rx_buf' = rx_buf)]_vars
    /\ [][(rxt.pc = "pop_done" /\ rxt'.pc # "pop_done" /\ rxt.n > 0) => rxt'.pc = "arm"]_vars
    /\ [][(rxt' # rxt /\ rxt'.op = "consume") => rxt'.pc = "arm"]_vars
    /\ [][(rxt.pc = "arm" /\ rxt'.pc # "arm") =>
            ("rxlvl" \in fifointen' /\ rxt'.pc = "idle")]_vars
    /\ [][(rxt' # rxt /\ rxt.op = "read" /\ rxt'.op = "read" /\ rxt'.pc # "arm"
             /\ rxt.pc # "arm") => fifointen' = fifointen]_vars

C24_Witness ==
    /\ isr.pc = "idle" /\ "rxlvl" \notin fifointen
    /\ RbIsFull(rx_buf) /\ rxFifo # <<>> /\ stat \cap RxeMask # {}
    /\ rxh = "live" /\ irqEnabled /\ ~irqPending /\ hist.rxDelivered = <<>>

\* C25: the consumer call that returns a latched fault leaves the error word
\* zero and the RX level interrupt enabled, so that later characters reach the
\* ring with no further call; this for read, blocking_read and fill_buf alike.
C25_FaultReturnRearms ==
    [][(rxt.pc \in {"take", "arm"} /\ rxt'.pc = "idle"
          /\ (rx_error \cap RxeMask # {} \/ rxt.err # "None")) =>
         /\ rx_error' = {}
         /\ "rxlvl" \in fifointen']_vars

\* C26: when the TX half of a handler pass over an attached TX ring ends,
\* the TX FIFO is full or the TX ring is empty.
C26_TxPassFillsOrDrains ==
    [][(isr.pc = "tx" /\ isr'.pc # "tx" /\ RbIsAvailable(tx_buf)) =>
         (txFifo = cfg.txDepth \/ RbIsEmpty(tx_buf'))]_vars

\* C27: a step of the handler taken while the RX ring is unattached reads no
\* character from the RX FIFO, changes neither the RX ring nor the error word
\* nor the RX waker, and is not in the RX loop; after its entry the pass does
\* not touch the FIFO interrupt enables either.  Likewise for the TX ring, the
\* TX FIFO and the TX waker.  The other direction is served meanwhile.
C27_UnattachedDirectionUntouched ==
    /\ [][(isr' # isr /\ ~RbIsAvailable(rx_buf)) =>
            /\ rxFifo' = rxFifo /\ rx_buf' = rx_buf /\ rx_error' = rx_error
            /\ rx_waker' = rx_waker /\ rxWoken' = rxWoken
            /\ hist'.rxRemoved = hist.rxRemoved
            /\ isr'.pc # "rx"
            /\ isr.pc # "idle" => fifointen' = fifointen]_vars
    /\ [][(isr' # isr /\ ~RbIsAvailable(tx_buf)) =>
            /\ txFifo' = txFifo /\ tx_buf' = tx_buf
            /\ tx_waker' = tx_waker /\ txWoken' = txWoken
            /\ hist'.txWire = hist.txWire
            /\ isr'.pc # "tx"]_vars

C27_Witness ==
    /\ isr.pc = "tx" /\ isr.i > 0 /\ rxh = "dropped" /\ ~RbIsAvailable(rx_buf)
    /\ rxFifo # <<>> /\ txFifo > 0

C29_ErrorWordAtomic ==
    /\ [][rxt.pc = "take_store" => (isr' = isr /\ rx_error' \subseteq rx_error)]_vars
    /\ [][(rxt.pc = "take_store" /\ rxt'.pc # "take_store") =>
            /\ rxt.val = rx_error
            /\ rx_error' = {}
            /\ hist'.lastErr = IF GetRxErrorKind(rx_error) = "None" THEN hist.lastErr
                               ELSE GetRxErrorKind(rx_error)]_vars
    /\ [][(isr.pc = "rx" /\ isr'.pc # "rx") =>
            (rx_error' = rx_error \/ rx_error' = rx_error \cup StatBits)]_vars
    /\ [][rx_error' # rx_error =>
            \/ isr.pc = "rx" /\ isr'.pc # "rx"
            \/ rxt.pc = "take_store" /\ rxt'.pc # "take_store"]_vars

\* A character with a fault arrived while get_rx_error was between its load
\* (of an empty word) and its store: the interrupt is asserted and enabled, and
\* the handler has not run.
C29_Witness ==
    /\ rxt.pc = "take_store" /\ rxt.val = {} /\ rx_error = {}
    /\ rxFifo # <<>> /\ stat \cap RxeMask # {}
    /\ irqEnabled /\ IrqAsserted /\ isr.pc = "idle"

\* C30: a write pends the interrupt only while the transmitter is idle (STAT
\* reports TXIDLE, nothing in the TX FIFO); a write that queued bytes while
\* earlier bytes are still in the TX FIFO returns without pending.
C30_PendOnlyWhenTxIdle ==
    /\ [][(txt.pc = "pend" /\ txt'.pc # "pend") => "txidle" \in StatBits]_vars
    /\ [][(txt.pc = "push_done" /\ txt'.pc # "push_done" /\ txt.n > 0
             /\ txFifo > 0) => txt'.pc # "pend"]_vars

\* C31: a write suspended over a full TX ring is woken once the handler has
\* moved a byte to the TX FIFO, also when the handler ran between the failed
\* push and the registration of the waker: a write never stays suspended
\* forever while the TX ring has free space.
C31_NoLostTxWakeup ==
    (txt.pc = "suspended" /\ txt.op = "write" /\ ~RbIsFull(tx_buf))
        ~> (txt.pc # "suspended")

\* The bytes a ring holds, oldest first (used by the properties only).
RbContents(rb) ==
    [i \in 1..RbUsed(rb) |-> rb.mem[RbFold(rb, RbWrap(rb, rb.start + i - 1)) + 1]]

\* C32: a write or blocking_write with a non-empty source of L bytes returns
\* Ok(n) with 1 <= n <= min(L, free space at the push), having appended exactly
\* the first n source bytes, and never returns Ok(0); a read
\* with a non-empty destination of L bytes that returns Ok(n) has
\* 1 <= n <= min(L, occupancy) and removed exactly the n oldest bytes.
C32_TransferCounts ==
    /\ [][(txt.pc = "push_done" /\ txt'.pc # "push_done") =>
            /\ txt.n <= Min(txt.len, tx_buf.len - RbUsed(tx_buf))
            /\ RbContents(tx_buf') =
                   RbContents(tx_buf) \o SubSeq(TxSource(txt.len), 1, txt.n)
            /\ (txt.n >= 1) <=> (txt'.pc = "pend")
            /\ txt'.pc # "idle"]_vars
    /\ [][(txt.pc # "idle" /\ txt'.pc = "idle") =>
            /\ txt.pc = "pend" /\ txt.n >= 1 /\ txt.n <= txt.len
            /\ tx_buf' = tx_buf]_vars
    /\ [][(rxt.pc = "pop_done" /\ rxt'.pc # "pop_done") =>
            /\ rxt.n <= Min(rxt.len, RbUsed(rx_buf))
            /\ RbContents(rx_buf) =
                   SubSeq(hist'.rxDelivered, Len(hist.rxDelivered) + 1,
                          Len(hist'.rxDelivered)) \o RbContents(rx_buf')
            /\ Len(hist'.rxDelivered) = Len(hist.rxDelivered) + rxt.n
            /\ (rxt.n >= 1) <=> (rxt'.pc = "arm")
            /\ rxt'.pc # "idle"]_vars
    /\ [][(rxt.pc # "idle" /\ rxt'.pc = "idle") =>
            /\ rxt.pc = "arm"
            /\ (rxt.err = "None") <=> (rxt.n >= 1)
            /\ rxt.n <= rxt.len
            /\ rx_buf' = rx_buf]_vars

\* A write of 2 bytes is about to return Ok(1), the ring having had room for
\* one byte only, after a read of 2 bytes returned both bytes of the RX ring.
C32_Witness ==
    /\ txt.pc = "pend" /\ txt.len = 2 /\ txt.n = 1 /\ RbIsFull(tx_buf)
    /\ Len(hist.rxDelivered) >= 2 /\ rxt.pc = "idle"

\* C33: a poll of read, fill_buf, write or flush that returns Pending changes
\* nothing but the waker slot of its direction: each of its steps leaves both
\* rings, the error word, the interrupt enables and the pending and enabled
\* state of the line as they were, and its last step registers the waker.
\* Abandoning the suspended call changes nothing either, so no byte is lost:
\* between handler passes the bytes delivered followed by the bytes in the RX
\* ring are the bytes read from the RX FIFO, and the bytes written to the TX
\* FIFO followed by the bytes in the TX ring are the bytes accepted.
C33_PendingPollFrame ==
    /\ [][(rxt' # rxt /\ rxt.op \in {"read", "fill_buf"}
             /\ (rxt'.pc \in {"take", "register", "suspended"}
                 \/ (rxt'.pc = "pop_done" /\ rxt'.n = 0))) =>
            /\ UNCHANGED <<rx_buf, tx_buf, rx_error, tx_waker, intenset, fifointen,
                           irqEnabled, irqPending, rxFifo, txFifo, stat>>
            /\ rx_waker' = (rx_waker \/ rxt'.pc = "suspended")
            /\ hist'.rxDelivered = hist.rxDelivered]_vars
    /\ [][(txt' # txt /\ txt.op \in {"write", "flush"}
             /\ (txt'.pc \in {"register", "suspended"}
                 \/ (txt'.pc = "push_done" /\ txt'.n = 0))) =>
            /\ UNCHANGED <<rx_buf, tx_buf, rx_error, rx_waker, intenset, fifointen,
                           irqEnabled, irqPending, rxFifo, txFifo, stat>>
            /\ tx_waker' = (tx_waker \/ txt'.pc = "suspended")
            /\ hist'.txAccepted = hist.txAccepted]_vars
    /\ [][(rxt.pc = "suspended" /\ rxt'.pc = "idle") =>
            UNCHANGED <<rx_buf, rx_error, rx_waker, regVars, nvicVars>>]_vars
    /\ [][(txt.pc = "suspended" /\ txt'.pc = "idle") =>
            UNCHANGED <<tx_buf, tx_waker, regVars, nvicVars>>]_vars
    /\ [](isr.pc = "idle" =>
            /\ hist.rxDelivered \o RbContents(rx_buf) = hist.rxRemoved
            /\ hist.txWire \o RbContents(tx_buf) = hist.txAccepted)

\* After a suspended call was abandoned, a later read is suspended with its
\* waker registered, every byte that arrived has been delivered and every byte
\* accepted has gone to the TX FIFO.
C33_Witness ==
    /\ rxt.pc = "suspended" /\ rx_waker /\ txt.pc = "idle"
    /\ Len(hist.rxDelivered) = SysBytes /\ Len(hist.txWire) = SysBytes + 1
    /\ hist.abandoned

\* C34: whenever the error word is not zero it holds at least one of the four
\* fault bits, so a get_rx_error that finds the word non-zero reports a fault
\* and clears the word: no latch is cleared with the result "no fault".
C34_NonZeroWordHasFault ==
    /\ [](rx_error # {} => rx_error \cap RxeMask # {})
    /\ [][(rxt.pc = "take" /\ rxt' # rxt /\ rx_error # {}) =>
            /\ GetRxErrorKind(rx_error) # "None"
            /\ hist'.lastErr = GetRxErrorKind(rx_error)
            /\ hist'.rxErrs = Min(hist.rxErrs + 1, MaxCalls)
            /\ rxt'.pc \notin {"register", "pop_buf"}
            /\ rx_error' = {}]_vars
    /\ [][(rxt.pc = "take" /\ rxt' # rxt /\ rx_error = {}) =>
            /\ rx_error' = {} /\ hist'.rxErrs = hist.rxErrs
            /\ rxt'.pc \in {"register", "pop_buf"}]_vars

\* A call is about to take an error word that holds a break fault next to a
\* STAT bit that is no fault.
C34_Witness ==
    /\ rxt.pc = "take" /\ rx_error \cap RxeMask = {RXE_BREAK}
    /\ rx_error \ RxeMask # {}

\* C35: every pass of the handler returns, with or without a fault: its RX
\* loop reads at most as many characters from the RX FIFO as the RX ring had
\* free bytes when the pass began, and its TX loop writes at most as many
\* characters to the TX FIFO as the TX ring held when the pass began.
C35_PassTerminates ==
    /\ (isr.pc # "idle") ~> (isr.pc = "idle")
    /\ [](isr.pc = "rx" =>
            /\ isr.i <= isr.n /\ isr.n <= rx_buf.len - RbUsed(rx_buf)
            /\ isr.i <= Len(hist.rxRemoved))
    /\ [](isr.pc = "tx" =>
            /\ isr.i <= isr.n /\ isr.n <= RbUsed(tx_buf)
            /\ isr.i <= Len(hist.txWire))
    /\ [][Len(rxFifo') < Len(rxFifo) =>
            /\ isr.pc = "rx" /\ isr'.pc = "rx" /\ isr'.i = isr.i + 1
            /\ isr'.n = isr.n
            /\ rx_buf'.start = rx_buf.start /\ rx_buf'.end = rx_buf.end]_vars
    /\ [][txFifo' > txFifo =>
            /\ isr.pc = "tx" /\ isr'.pc = "tx" /\ isr'.i = isr.i + 1
            /\ isr'.n = isr.n /\ tx_buf' = tx_buf]_vars
    /\ [][(isr.pc = "rx" /\ isr'.pc # "rx") => RbUsed(rx_buf') = RbUsed(rx_buf) + isr.i]_vars
    /\ [][(isr.pc = "tx" /\ isr'.pc # "tx") => RbUsed(tx_buf') = RbUsed(tx_buf) - isr.i]_vars

\* The RX loop has filled the two free bytes of the ring and stops with a
\* faulted character still waiting in the RX FIFO.
C35_Witness ==
    /\ isr.pc = "rx" /\ isr.n = 2 /\ isr.i = 2
    /\ rxFifo # <<>> /\ stat \cap RxeMask # {}

====
